---- MODULE Spec2Model ----
(***************************************************************************)
(* A model of src/snake_game.py: the Snake object, the free-cell spawner   *)
(* and the SnakeGame frame loop (_handle_input, _update).                  *)
(*                                                                         *)
(* The play area of the program is 32 x 24 cells (WIDTH 640, HEIGHT 490,   *)
(* CELL 20).  The model keeps CELL, ROCK_COUNT and MOVE_INTERVAL_MS and    *)
(* every formula of the source, and scales the play area to Cols x Rows    *)
(* cells: WIDTH = Cols * CELL and HEIGHT = Rows * CELL + HeightMargin      *)
(* (490 = 24 * 20 + 10, so the source's HEIGHT is not a multiple of CELL   *)
(* either and play_height rounds it down).                                 *)
(*                                                                         *)
(* Time: the only use the program makes of the clock is the difference     *)
(* get_ticks() - last_move.  The model keeps that difference (elapsed) as  *)
(* of the latest clock reading, not the two absolute values.               *)
(***************************************************************************)
EXTENDS Integers, Sequences, FiniteSets

VARIABLES
    snake,      \* the Snake object: x, y, segments, dx, dy, pending_growth
    apple,      \* (apple.x, apple.y)
    rocks,      \* the list self.rocks, as the sequence of (rock.x, rock.y)
    score,      \* self.score
    running,    \* self.running
    elapsed,    \* get_ticks() - self.last_move at the latest clock reading
    pc,         \* position in run(): "input", "update", "quit", "raised"
    outcome,    \* history: the branches the _update call that just ended took
    rejected,   \* history: the _handle_input call that just ended made a
                \* set_direction call that returned at "the exact reverse"
    rock_hits,  \* history: the rocks struck since the round began
    reading     \* history: how the clock reading of the _update call that
                \* just ended compares with last_move

\* No history variable is read by an action; outcome and reading are cleared
\* by _handle_input, rejected by _update.
vars ==
    <<snake, apple, rocks, score, running, elapsed, pc, outcome, rejected,
      rock_hits, reading>>

----------------------------------------------------------------------------
(* Program constants and the bounds of the model. *)

CELL == 20
ROCK_COUNT == 3
MOVE_INTERVAL_MS == 120
HeightMargin == 10

Cols == 3
Rows == 2
MaxScore == 3
MaxEvents == 1
MaxCommands == 2

WIDTH == Cols * CELL
HEIGHT == Rows * CELL + HeightMargin

play_height == (HEIGHT \div CELL) * CELL

grid_positions ==
    { <<x * CELL, y * CELL>> : x \in 0 .. ((WIDTH - 1) \div CELL),
                               y \in 0 .. ((play_height - 1) \div CELL) }

Range(s) == { s[i] : i \in 1 .. Len(s) }

----------------------------------------------------------------------------
(* class Snake *)

NewSnake(x, y, size) ==
    [ x |-> x, y |-> y, segments |-> << <<x, y>> >>,
      dx |-> size, dy |-> 0, pending_growth |-> 0 ]

\* Mutant: a component of the direction is written only when it is not 0.
set_direction_per_axis(s, dx, dy) ==
    IF s.segments = << >> THEN s
    ELSE IF <<dx, dy>> = <<-s.dx, -s.dy>> THEN s
    ELSE [s EXCEPT !.dx = IF dx # 0 THEN dx ELSE @,
                   !.dy = IF dy # 0 THEN dy ELSE @]

\* Mutant: the reverse of the current direction is accepted.
set_direction_any(s, dx, dy) ==
    IF s.segments = << >> THEN s
    ELSE [s EXCEPT !.dx = dx, !.dy = dy]

set_direction(s, dx, dy) ==
    IF s.segments = << >> THEN s
    ELSE IF <<dx, dy>> = <<-s.dx, -s.dy>> THEN s
    ELSE [s EXCEPT !.dx = dx, !.dy = dy]

\* Mutant: the new head is not reduced modulo the width and the height.
move_off_grid(s, width, height) ==
    IF s.segments = << >> THEN s
    ELSE
      LET head == s.segments[1]
          new_x == head[1] + s.dx
          new_y == head[2] + s.dy
          inserted == << <<new_x, new_y>> >> \o s.segments
          kept == IF s.pending_growth > 0
                  THEN inserted
                  ELSE SubSeq(inserted, 1, Len(inserted) - 1)
          growth == IF s.pending_growth > 0
                    THEN s.pending_growth - 1
                    ELSE s.pending_growth
      IN  IF kept # << >>
          THEN [s EXCEPT !.segments = kept, !.pending_growth = growth,
                         !.x = kept[1][1], !.y = kept[1][2]]
          ELSE [s EXCEPT !.segments = kept, !.pending_growth = growth]

\* Mutant: pending growth keeps the tail and is not counted down.
move_keeps_growth(s, width, height) ==
    IF s.segments = << >> THEN s
    ELSE
      LET head == s.segments[1]
          new_x == (head[1] + s.dx) % width
          new_y == (head[2] + s.dy) % height
          inserted == << <<new_x, new_y>> >> \o s.segments
          kept == IF s.pending_growth > 0
                  THEN inserted
                  ELSE SubSeq(inserted, 1, Len(inserted) - 1)
      IN  [s EXCEPT !.segments = kept, !.x = new_x, !.y = new_y]

\* Mutant: x and y are not set to the new head.
move_stale_xy(s, width, height) ==
    IF s.segments = << >> THEN s
    ELSE
      LET head == s.segments[1]
          new_x == (head[1] + s.dx) % width
          new_y == (head[2] + s.dy) % height
          inserted == << <<new_x, new_y>> >> \o s.segments
          kept == IF s.pending_growth > 0
                  THEN inserted
                  ELSE SubSeq(inserted, 1, Len(inserted) - 1)
          growth == IF s.pending_growth > 0
                    THEN s.pending_growth - 1
                    ELSE s.pending_growth
      IN  [s EXCEPT !.segments = kept, !.pending_growth = growth]

\* Mutant: the tail is popped whether or not growth is pending.
move_pops_always(s, width, height) ==
    IF s.segments = << >> THEN s
    ELSE
      LET head == s.segments[1]
          new_x == (head[1] + s.dx) % width
          new_y == (head[2] + s.dy) % height
          kept == << <<new_x, new_y>> >>
                    \o SubSeq(s.segments, 1, Len(s.segments) - 1)
          growth == IF s.pending_growth > 0
                    THEN s.pending_growth - 1
                    ELSE s.pending_growth
      IN  [s EXCEPT !.segments = kept, !.pending_growth = growth,
                    !.x = new_x, !.y = new_y]

move(s, width, height) ==
    IF s.segments = << >> THEN s
    ELSE
      LET head == s.segments[1]
          new_x == (head[1] + s.dx) % width
          new_y == (head[2] + s.dy) % height
          inserted == << <<new_x, new_y>> >> \o s.segments
          kept == IF s.pending_growth > 0
                  THEN inserted
                  ELSE SubSeq(inserted, 1, Len(inserted) - 1)
          growth == IF s.pending_growth > 0
                    THEN s.pending_growth - 1
                    ELSE s.pending_growth
      IN  IF kept # << >>
          THEN [s EXCEPT !.segments = kept, !.pending_growth = growth,
                         !.x = kept[1][1], !.y = kept[1][2]]
          ELSE [s EXCEPT !.segments = kept, !.pending_growth = growth]

\* Mutant: an apple is worth two segments.
grow_by_two(s) == [s EXCEPT !.pending_growth = s.pending_growth + 2]

\* Mutant: growth is immediate, the tail segment is doubled at once.
grow_at_once(s) ==
    [s EXCEPT !.segments = Append(@, @[Len(@)])]

grow(s) == [s EXCEPT !.pending_growth = s.pending_growth + 1]

\* Mutant: the tail segment is kept.
shorten_nothing(s) == s

shorten(s) ==
    LET popped == IF s.segments # << >>
                  THEN SubSeq(s.segments, 1, Len(s.segments) - 1)
                  ELSE s.segments
    IN  IF popped # << >>
        THEN [s EXCEPT !.segments = popped,
                       !.x = popped[1][1], !.y = popped[1][2]]
        ELSE [s EXCEPT !.segments = popped]

\* Mutant: the head is compared with the segments before the tail only.
collides_with_self_but_tail(s) ==
    IF Len(s.segments) < 2 THEN FALSE
    ELSE \E i \in 2 .. (Len(s.segments) - 1) : s.segments[i] = s.segments[1]

collides_with_self(s) ==
    IF Len(s.segments) < 2 THEN FALSE
    ELSE \E i \in 2 .. Len(s.segments) : s.segments[i] = s.segments[1]

\* Mutant: rectangles that share an edge collide.
colliderect_touching(ax, ay, bx, by) ==
    /\ ax <= bx + CELL
    /\ bx <= ax + CELL
    /\ ay <= by + CELL
    /\ by <= ay + CELL

\* GameObject.rect and pygame.Rect.colliderect for two squares of side CELL:
\* the rectangles overlap iff they overlap on both axes (touching edges do
\* not collide).
colliderect(ax, ay, bx, by) ==
    /\ ax < bx + CELL
    /\ bx < ax + CELL
    /\ ay < by + CELL
    /\ by < ay + CELL

----------------------------------------------------------------------------
(* class SnakeGame: the spawner.                                           *)
(* random.choice(free) returns any element of free and raises IndexError   *)
(* when free is empty.  An operator that draws a position is modelled as   *)
(* the set of positions it can return; the empty set is the raise.  An     *)
(* operator that fills the rock list returns the set of its results, each  *)
(* [raised, rocks]: raised is TRUE when a draw inside it raised.           *)

create_snake ==
    LET start_x == ((WIDTH \div 2) \div CELL) * CELL
        start_y == ((play_height \div 2) \div CELL) * CELL
    IN  NewSnake(start_x, start_y, CELL)

random_free_position(blocked) ==
    { pos \in grid_positions : pos \notin blocked }

\* Mutant: the rocks are not blocked.
spawn_apple_on_rocks(segments, rks) ==
    random_free_position(Range(segments))

spawn_apple(segments, rks) ==
    random_free_position(Range(segments) \cup Range(rks))

RECURSIVE fill_rocks(_, _)
\* The loop "while len(rocks) < ROCK_COUNT" of _spawn_rocks and of
\* _ensure_rock_count: draw, block the cell, append.
fill_rocks(rks, blocked) ==
    IF Len(rks) < ROCK_COUNT
    THEN IF random_free_position(blocked) = {}
         THEN { [raised |-> TRUE, rocks |-> rks] }
         ELSE UNION { fill_rocks(Append(rks, pos), blocked \cup {pos}) :
                          pos \in random_free_position(blocked) }
    ELSE { [raised |-> FALSE, rocks |-> rks] }

\* Mutant: the snake's cells are not blocked.
spawn_rocks_on_snake(segments, ap) ==
    fill_rocks(<< >>, {ap})

spawn_rocks(segments, ap) ==
    fill_rocks(<< >>, Range(segments) \cup {ap})

\* Mutant: no top-up.
ensure_rock_count_no_top_up(segments, ap, rks) ==
    { [raised |-> FALSE, rocks |-> rks, truncated |-> FALSE] }

\* truncated: the branch "len(self.rocks) > ROCK_COUNT" was taken (a
\* history).
ensure_rock_count(segments, ap, rks) ==
    { [raised |-> r.raised,
       rocks  |-> IF ~r.raised /\ Len(r.rocks) > ROCK_COUNT
                  THEN SubSeq(r.rocks, 1, ROCK_COUNT)
                  ELSE r.rocks,
       truncated |-> ~r.raised /\ Len(r.rocks) > ROCK_COUNT] :
        r \in fill_rocks(rks, Range(segments) \cup {ap} \cup Range(rks)) }

----------------------------------------------------------------------------
(* class SnakeGame: the round engine.                                      *)
(* A game value g holds the fields of the SnakeGame object that the engine *)
(* reads or writes, g.raised (an exception is propagating: the statements  *)
(* after the raise did not run) and g.did, the set of branches the call    *)
(* took (a history, read by no operator): "move", "grew" (the move kept    *)
(* the tail), "rock", "empty", "self", "apple", "reset", "truncated"       *)
(* (_ensure_rock_count cut the rock list).  A method is the set of game    *)
(* values it can end in.                                                   *)

\* The apple and the rock list _reset_objects can leave for the new snake:
\* the apple is drawn with the rock list empty, then the rocks are drawn.
\* (The value does not depend on the state.)
respawned ==
    LET s == create_snake
    IN  IF spawn_apple(s.segments, << >>) = {}
        THEN { [raised |-> TRUE, apple |-> <<0, 0>>, rocks |-> << >>, drawn |-> FALSE] }
        ELSE UNION {
               { [raised |-> r.raised, apple |-> ap, drawn |-> TRUE,
                  rocks |-> IF r.raised THEN << >> ELSE r.rocks] :
                   r \in spawn_rocks(s.segments, ap) } :
               ap \in spawn_apple(s.segments, << >>) }

reset_objects(g) ==
    { [g EXCEPT !.snake = create_snake,
                !.rocks = o.rocks,
                !.apple = IF o.drawn THEN o.apple ELSE g.apple,
                !.raised = o.raised] : o \in respawned }

\* Mutant: the score is kept.
reset_round_keeps_score(g) ==
    { IF h.raised THEN h ELSE [h EXCEPT !.elapsed = 0] :
        h \in reset_objects([g EXCEPT !.did = @ \cup {"reset"}]) }

\* _show_game_over draws and sleeps 1200 ms; last_move is read from
\* the clock after it, so the time since last_move is 0 when the call ends.
reset_round(g) ==
    { IF h.raised THEN h ELSE [h EXCEPT !.elapsed = 0] :
        h \in reset_objects([g EXCEPT !.score = 0, !.did = @ \cup {"reset"}]) }

\* Mutant: the struck rock stays in the list.
handle_rock_collision_keeps_rock(g) ==
    IF g.snake.segments = << >> THEN { g }
    ELSE
      LET head == g.snake.segments[1]
          hits == { i \in 1 .. Len(g.rocks) : g.rocks[i] = head }
      IN  IF hits = {} THEN { g }
          ELSE
            LET s == shorten(g.snake)
            IN  { [g EXCEPT !.snake = s, !.rocks = r.rocks,
                            !.raised = r.raised, !.did = @ \cup {"rock"}] :
                    r \in ensure_rock_count(s.segments, g.apple, g.rocks) }

handle_rock_collision(g) ==
    IF g.snake.segments = << >> THEN { g }
    ELSE
      LET head == g.snake.segments[1]
          hits == { i \in 1 .. Len(g.rocks) : g.rocks[i] = head }
      IN  IF hits = {} THEN { g }
          ELSE
            LET hit_index == CHOOSE i \in hits : \A j \in hits : i <= j
                s == shorten(g.snake)
                popped == SubSeq(g.rocks, 1, hit_index - 1)
                            \o SubSeq(g.rocks, hit_index + 1, Len(g.rocks))
            IN  { [g EXCEPT !.snake = s, !.rocks = r.rocks,
                            !.raised = r.raised,
                            !.did = @ \cup {"rock"} \cup
                                   (IF r.truncated THEN {"truncated"} ELSE {})] :
                    r \in ensure_rock_count(s.segments, g.apple, popped) }

\* The part of _update after the apple test.
eat_apple(g) ==
    IF colliderect(g.snake.x, g.snake.y, g.apple[1], g.apple[2])
    THEN LET fed == [g EXCEPT !.snake = grow(g.snake), !.score = g.score + 1,
                              !.did = @ \cup {"apple"}]
         IN  IF spawn_apple(fed.snake.segments, fed.rocks) = {}
             THEN { [fed EXCEPT !.raised = TRUE] }
             ELSE { [fed EXCEPT !.apple = ap] :
                      ap \in spawn_apple(fed.snake.segments, fed.rocks) }
    ELSE { g }

\* The body of _update once the move is due: everything after the test of
\* the move interval.
tick(g) ==
    LET moved == [g EXCEPT !.elapsed = 0,
                           !.snake = move(g.snake, WIDTH, play_height),
                           !.did = IF g.snake.pending_growth > 0
                                   THEN {"move", "grew"}
                                   ELSE {"move"}]
        after_rock(h) ==
            IF h.raised THEN { h }
            ELSE IF h.snake.segments = << >>
            THEN reset_round([h EXCEPT !.did = @ \cup {"empty"}])
            ELSE IF collides_with_self(h.snake)
            THEN reset_round([h EXCEPT !.did = @ \cup {"self"}])
            ELSE UNION {
                   IF e.raised THEN { e }
                   ELSE { [e EXCEPT !.rocks = r.rocks, !.raised = r.raised,
                                    !.did = @ \cup (IF r.truncated
                                                    THEN {"truncated"}
                                                    ELSE {})] :
                            r \in ensure_rock_count(e.snake.segments,
                                                    e.apple, e.rocks) } :
                   e \in eat_apple(h) }
    IN  UNION { after_rock(h) : h \in handle_rock_collision(moved) }

\* Mutant: the move interval is not tested.
update_every_frame(g, since_last_move) == tick(g)

\* _update, given now - last_move.  An early return writes nothing; the
\* model records the clock reading it made (g.elapsed).
update(g, since_last_move) ==
    IF since_last_move < MOVE_INTERVAL_MS
    THEN { [g EXCEPT !.elapsed = since_last_move] }
    ELSE tick(g)

----------------------------------------------------------------------------
(* The frame loop: run() calls _handle_input, then _update, then draws and *)
(* waits for the next frame, while self.running.                           *)

Events == {"QUIT", "K_ESCAPE", "K_UP", "K_DOWN", "K_LEFT", "K_RIGHT"}

EventSeqs == UNION { [1 .. n -> Events] : n \in 0 .. MaxEvents }

\* The time between two clock readings of consecutive frames: half the move
\* interval (two such frames make the interval exactly), or two intervals.
ClockSteps == { MOVE_INTERVAL_MS \div 2, 2 * MOVE_INTERVAL_MS }

\* The body of the loop of _handle_input for one event; a value h holds the
\* two fields it writes, h.snake and h.running, and the history h.rejected.
handle_event(h, event) ==
    LET key(dx, dy) ==
            [h EXCEPT !.snake = set_direction(h.snake, dx, dy),
                      !.rejected = @ \/ (/\ h.snake.segments # << >>
                                         /\ dx = -h.snake.dx
                                         /\ dy = -h.snake.dy)]
    IN  CASE event = "QUIT"     -> [h EXCEPT !.running = FALSE]
          [] event = "K_ESCAPE" -> [h EXCEPT !.running = FALSE]
          [] event = "K_UP"     -> key(0, -CELL)
          [] event = "K_DOWN"   -> key(0, CELL)
          [] event = "K_LEFT"   -> key(-CELL, 0)
          [] event = "K_RIGHT"  -> key(CELL, 0)

\* Mutant: the loop ends after the first event.
handle_input_first_event(h, events) ==
    IF events = << >> THEN h ELSE handle_event(h, Head(events))

RECURSIVE handle_input(_, _)
\* _handle_input on the events of pygame.event.get(), in order.
handle_input(h, events) ==
    IF events = << >> THEN h
    ELSE handle_input(handle_event(h, Head(events)), Tail(events))

\* The SnakeGame object as a game value, no exception propagating.
Self ==
    [ snake |-> snake, apple |-> apple, rocks |-> rocks, score |-> score,
      elapsed |-> elapsed, raised |-> FALSE, did |-> {} ]

\* __init__, then the first statement of run(): last_move = get_ticks().
Init ==
    \E g \in reset_objects([ snake |-> create_snake, apple |-> <<0, 0>>,
                             rocks |-> << >>, score |-> 0, elapsed |-> 0,
                             raised |-> FALSE, did |-> {} ]) :
        /\ ~g.raised
        /\ snake = g.snake
        /\ apple = g.apple
        /\ rocks = g.rocks
        /\ score = g.score
        /\ running = TRUE
        /\ elapsed = 0
        /\ pc = "input"
        /\ outcome = {}
        /\ rejected = FALSE
        /\ rock_hits = 0
        /\ reading = "none"

HandleInput(events) ==
    /\ pc = "input"
    /\ LET h == handle_input([snake |-> snake, running |-> running,
                               rejected |-> FALSE], events)
       IN  /\ snake' = h.snake
           /\ running' = h.running
           /\ rejected' = h.rejected
    /\ pc' = "update"
    /\ outcome' = {}
    /\ reading' = "none"
    /\ UNCHANGED <<apple, rocks, score, elapsed, rock_hits>>

\* _update, then the loop test "while self.running".  An exception leaves
\* run(): the process ends with the traceback.  The histories: outcome holds
\* the branches taken and "raised"; reading is "early" when the clock read
\* less than the move interval since last_move, "late" when it read two
\* intervals or more, "due" in between.
Update ==
    /\ pc = "update"
    /\ \E step \in ClockSteps :
         \E g \in update(Self, elapsed + step) :
            /\ g.score <= MaxScore
            /\ snake' = g.snake
            /\ apple' = g.apple
            /\ rocks' = g.rocks
            /\ score' = g.score
            /\ elapsed' = g.elapsed
            /\ outcome' = IF g.raised THEN g.did \cup {"raised"} ELSE g.did
            /\ reading' = IF elapsed + step < MOVE_INTERVAL_MS THEN "early"
                          ELSE IF elapsed + step < 2 * MOVE_INTERVAL_MS
                          THEN "due"
                          ELSE "late"
            /\ rock_hits' = IF "reset" \in g.did THEN 0
                            ELSE IF "rock" \in g.did THEN rock_hits + 1
                            ELSE rock_hits
            /\ pc' = IF g.raised THEN "raised"
                     ELSE IF running THEN "input" ELSE "quit"
    /\ rejected' = FALSE
    /\ UNCHANGED running

Next ==
    \/ \E events \in EventSeqs : HandleInput(events)
    \/ Update

Spec == Init /\ [][Next]_vars

----------------------------------------------------------------------------
(* The claims.  Every state of the model is a state between two handler    *)
(* calls; a tick is an Update step whose outcome holds "move", and it has  *)
(* completed unless an exception left it (pc = "raised").                  *)

Completed == pc # "raised"

Distinct(seq) == \A i, j \in 1 .. Len(seq) : i # j => seq[i] # seq[j]

StartCell == << (Cols \div 2) * CELL, (Rows \div 2) * CELL >>

\* C1: after construction and after every completed tick the apple is on no
\* rock and on no snake segment.
C1_AppleOffRocksAndSnake ==
    Completed => /\ apple \notin Range(rocks)
                 /\ apple \notin Range(snake.segments)

\* C1 witness: a tick that ate the apple and respawned it has completed.
C1_Witness ==
    /\ Completed
    /\ {"move", "apple"} \subseteq outcome
    /\ snake.pending_growth = 1

\* C2: after construction and after every completed tick there are exactly
\* ROCK_COUNT rocks.
C2_RockCount == Completed => Len(rocks) = ROCK_COUNT

\* C2 witness: a tick in which the head struck a rock, with no round reset,
\* has completed.
C2_Witness ==
    /\ Completed
    /\ "rock" \in outcome
    /\ "reset" \notin outcome

\* The cell the next move puts the head on, and whether it is a cell of the
\* body before the tail, or the tail cell.
NewHead ==
    << (snake.segments[1][1] + snake.dx) % WIDTH,
       (snake.segments[1][2] + snake.dy) % play_height >>
HitsBody == \E i \in 1 .. (Len(snake.segments) - 1) : snake.segments[i] = NewHead
HitsTail == snake.segments[Len(snake.segments)] = NewHead

\* C3: after every tick the snake's segments are pairwise distinct: a move
\* that puts the head on another segment is detected (collides_with_self)
\* and resets the round in the same tick.  A step into the cell the tail
\* leaves in the same move is no collision; a step into the tail cell while
\* growth is pending is one.
C3_NoDuplicateSegment ==
    [][ "move" \in outcome'
        => /\ Distinct(snake'.segments)
           /\ ~collides_with_self(snake')
           /\ "rock" \notin outcome' =>
                ("self" \in outcome'
                   <=> (HitsBody \/ (HitsTail /\ snake.pending_growth > 0)))
           /\ "self" \in outcome' => "reset" \in outcome' ]_vars

\* C3 witness: a tick detected a self-collision and reset the round.
C3_Witness ==
    /\ Completed
    /\ {"self", "reset"} \subseteq outcome

\* C4: no spawn or top-up ever raises out of the engine (the claim; the
\* code lets IndexError leave _update).
C4_NoUnhandledException == pc # "raised"

\* The direction of the latest move, read off the body: segments[2] is the
\* cell the head left.  Defined for a move along the x axis (on a play area
\* at least three cells wide the two x directions give different cells).
LastMoveAlongX ==
    /\ Len(snake.segments) >= 2
    /\ snake.segments[1][2] = snake.segments[2][2]

LastDx ==
    CHOOSE d \in {CELL, -CELL} :
        snake.segments[1][1] = (snake.segments[2][1] + d) % WIDTH

\* C5: the direction a move uses is never the exact reverse of the direction
\* the previous move used, whatever commands came in between (the claim; the
\* code compares a command with the buffered direction, not with the
\* direction of the previous move).
C5_NoReversal ==
    [][ (/\ pc = "update"
         /\ "move" \in outcome'
         /\ LastMoveAlongX)
        => ~(snake.dx = -LastDx /\ snake.dy = 0) ]_vars

\* C6: set_direction with the exact opposite of the current direction leaves
\* the snake as it is, and the move after it takes the head one cell along
\* the current direction, wrapped.
C6_ReverseIgnored ==
    LET s == set_direction(snake, -snake.dx, -snake.dy)
        head == snake.segments[1]
    IN  /\ s = snake
        /\ snake.segments # << >> =>
             move(s, WIDTH, play_height).segments[1]
               = << (head[1] + snake.dx) % WIDTH,
                    (head[2] + snake.dy) % play_height >>

\* C6 witness: _handle_input has just rejected a reverse command.
C6_Witness ==
    /\ pc = "update"
    /\ rejected
    /\ snake.segments # << >>

\* A tick that ate the apple, and a tick that struck no rock and reset
\* nothing (steps, for the action formulas below).
AteApple == "apple" \in outcome'
PlainMove ==
    /\ "move" \in outcome'
    /\ outcome' \cap {"rock", "reset"} = {}

\* C7 as stated: on a tick that eats the apple the score goes up by one and
\* the body length does not change.
C7_EatKeepsLength ==
    [][ AteApple => /\ score' = score + 1
                    /\ Len(snake'.segments) = Len(snake.segments) ]_vars

\* C7 as amended: on a tick that eats the apple the score goes up by one and
\* the apple adds nothing to the body in that tick (the body is as long as
\* the move alone makes it: unchanged with no growth pending, one longer
\* with growth pending from the apple before); the growth is pending after
\* the tick, and a later tick with no rock hit and no reset that starts with
\* it pending makes the body exactly one longer.
C7_GrowthDeferred ==
    [][ /\ AteApple =>
             /\ score' = score + 1
             /\ Len(snake'.segments)
                  = Len(snake.segments) + snake.pending_growth
             /\ snake'.pending_growth = 1
        /\ (PlainMove /\ snake.pending_growth = 0) =>
             Len(snake'.segments) = Len(snake.segments)
        /\ (PlainMove /\ snake.pending_growth = 1) =>
             Len(snake'.segments) = Len(snake.segments) + 1 ]_vars

\* C7 witness: the scenario of the claim, one tick after the eating tick:
\* the snake ate with one segment (score 1) and the next move made it two.
C7_Witness ==
    /\ Completed
    /\ outcome = {"move", "grew"}
    /\ score = 1
    /\ Len(snake.segments) = 2
    /\ snake.pending_growth = 0

\* A tick in which the head struck a rock (a step).
StruckRock == "rock" \in outcome'

\* The rock list after the struck rock (at the new head) is removed.
RocksLeft ==
    LET hit_index == CHOOSE i \in 1 .. Len(rocks) :
                        /\ rocks[i] = NewHead
                        /\ \A j \in 1 .. (i - 1) : rocks[j] # NewHead
    IN  SubSeq(rocks, 1, hit_index - 1)
          \o SubSeq(rocks, hit_index + 1, Len(rocks))

\* The rock is recycled: the struck rock is gone, the others stay, and one
\* rock is added on a cell of the grid that holds no segment, no apple and
\* no other rock.
RockRecycled ==
    /\ Len(rocks') = ROCK_COUNT
    /\ SubSeq(rocks', 1, ROCK_COUNT - 1) = RocksLeft
    /\ NewHead \notin Range(rocks')
    /\ rocks'[ROCK_COUNT] \in grid_positions
    /\ rocks'[ROCK_COUNT] \notin
         Range(snake'.segments) \cup {apple'} \cup Range(RocksLeft)

\* C8: a snake of length L >= 2 with no growth pending that moves its head
\* onto a rock has length L - 1 after the tick, the rock is recycled, and
\* the round is not reset.
C8_RockPenalty ==
    [][ (/\ StruckRock
         /\ Len(snake.segments) >= 2
         /\ snake.pending_growth = 0)
        => /\ Len(snake'.segments) = Len(snake.segments) - 1
           /\ RockRecycled
           /\ outcome' \cap {"reset", "raised"} = {}
           /\ score' = score ]_vars

\* C8 witness: such a tick has completed (the move kept no tail, a rock was
\* struck, the snake was not emptied).
C8_Witness ==
    /\ Completed
    /\ outcome = {"move", "rock"}

\* C9 as stated: after a tick in which a snake of length L moved its head
\* onto a rock the body length is still L.
C9_RockKeepsLength ==
    [][ StruckRock => Len(snake'.segments) = Len(snake.segments) ]_vars

\* C9 as amended: a rock hit that does not empty the snake costs one
\* segment: the length after the tick is L - 1 with no growth pending and L
\* only with growth pending (the move grows the body to L + 1 and shorten
\* takes one off); the rock is recycled.
C9_RockCostsOneSegment ==
    [][ (StruckRock /\ "reset" \notin outcome')
        => /\ Len(snake'.segments)
                = Len(snake.segments) + snake.pending_growth - 1
           /\ snake'.pending_growth = 0
           /\ RockRecycled ]_vars

\* C9 witness: a rock was struck by a snake with growth pending (the one
\* case in which the length is preserved).
C9_Witness ==
    /\ Completed
    /\ outcome = {"move", "grew", "rock"}

\* C10: a tick that detects game over ends with the score 0, the snake one
\* segment at the start cell heading (CELL, 0) with no growth pending,
\* ROCK_COUNT rocks, an apple on a free cell of the grid, the tick interval
\* restarted and the running flag as it was; it raises nothing.
C10_RoundReset ==
    [][ (outcome' \cap {"empty", "self", "reset"} # {})
        => /\ {"move", "reset"} \subseteq outcome'
           /\ "raised" \notin outcome'
           /\ pc' \in {"input", "quit"}
           /\ score' = 0
           /\ snake'.segments = << StartCell >>
           /\ <<snake'.x, snake'.y>> = StartCell
           /\ <<snake'.dx, snake'.dy>> = <<CELL, 0>>
           /\ snake'.pending_growth = 0
           /\ Len(rocks') = ROCK_COUNT
           /\ apple' \in grid_positions
           /\ apple' \notin Range(rocks') \cup Range(snake'.segments)
           /\ elapsed' = 0
           /\ running' = running ]_vars

\* C10 witness: a rock hit emptied the snake and the round was reset.
C10_Witness ==
    /\ Completed
    /\ {"rock", "empty", "reset"} \subseteq outcome
    /\ score = 0

\* C11: a tick that strikes a rock empties the snake, and with that resets
\* the round, exactly when the snake had one segment and no growth pending
\* before the tick; a rock struck by a snake of two or more segments, or of
\* one segment with growth pending, leaves segments and resets nothing.
C11_RockEndsRoundOnlyAtLengthOne ==
    [][ StruckRock
        => /\ ("empty" \in outcome')
                <=> (Len(snake.segments) = 1 /\ snake.pending_growth = 0)
           /\ ("reset" \in outcome') <=> ("empty" \in outcome')
           /\ ("empty" \notin outcome')
                => /\ snake'.segments # << >>
                   /\ "self" \notin outcome'
                   /\ score' = score ]_vars

\* C11 witness: a snake of one segment with growth pending struck a rock
\* and the round went on, the snake still one segment long.
C11_Witness ==
    /\ Completed
    /\ {"grew", "rock"} \subseteq outcome
    /\ "reset" \notin outcome
    /\ Len(snake.segments) = 1
    /\ rock_hits >= 1

\* A position of the lattice of the play area.
OnLattice(pos) ==
    /\ pos[1] % CELL = 0
    /\ 0 <= pos[1]
    /\ pos[1] < WIDTH
    /\ pos[2] % CELL = 0
    /\ 0 <= pos[2]
    /\ pos[2] < play_height

\* C12: every snake segment, every rock and the apple is on a lattice point
\* of the play area: x a multiple of CELL in [0, WIDTH), y a multiple of
\* CELL in [0, play_height), where play_height is HEIGHT cut down to a
\* multiple of CELL; a move off an edge wraps to the opposite edge.
C12_OnLattice ==
    /\ play_height % CELL = 0
    /\ play_height = HEIGHT - HeightMargin
    /\ \A i \in 1 .. Len(snake.segments) : OnLattice(snake.segments[i])
    /\ \A i \in 1 .. Len(rocks) : OnLattice(rocks[i])
    /\ OnLattice(apple)
    /\ OnLattice(<<snake.x, snake.y>>)

\* C12 witness: a snake of two segments heading left moved off the left
\* edge and its head is on the right edge.
C12_Witness ==
    /\ Completed
    /\ "move" \in outcome
    /\ "reset" \notin outcome
    /\ <<snake.dx, snake.dy>> = <<-CELL, 0>>
    /\ Len(snake.segments) = 2
    /\ snake.segments[1][1] = WIDTH - CELL
    /\ snake.segments[2][1] = 0

\* The four axis-aligned unit steps.
UnitSteps == { <<CELL, 0>>, <<-CELL, 0>>, <<0, CELL>>, <<0, -CELL>> }

\* C13: the snake's direction (dx, dy) is always one of (CELL, 0),
\* (-CELL, 0), (0, CELL), (0, -CELL): never diagonal, never zero, never
\* longer than one cell.
C13_DirectionIsUnitStep == <<snake.dx, snake.dy>> \in UnitSteps

\* C13 witness: a key turned the snake from its starting direction to a
\* vertical one, and the snake has moved that way without a reset.
C13_Witness ==
    /\ Completed
    /\ pc = "input"
    /\ "move" \in outcome
    /\ "reset" \notin outcome
    /\ <<snake.dx, snake.dy>> = <<0, -CELL>>

\* The direction commands, the step each asks for, and the sequences of
\* commands of up to MaxCommands.
Commands == {"K_UP", "K_DOWN", "K_LEFT", "K_RIGHT"}
KeyStep(k) ==
    CASE k = "K_UP"    -> <<0, -CELL>>
      [] k = "K_DOWN"  -> <<0, CELL>>
      [] k = "K_LEFT"  -> <<-CELL, 0>>
      [] k = "K_RIGHT" -> <<CELL, 0>>
CommandSeqs == UNION { [1 .. n -> Commands] : n \in 0 .. MaxCommands }

\* The snake _handle_input leaves when it gets the commands cmds in the
\* current state, and its direction.
AfterCommands(cmds) ==
    handle_input([snake |-> snake, running |-> running, rejected |-> FALSE],
                 cmds).snake
Buffered(cmds) == << AfterCommands(cmds).dx, AfterCommands(cmds).dy >>

\* C14: direction commands are last-write-wins and there is no queue.  For
\* any commands received since the last tick, one more command decides the
\* buffered direction alone: its own step, unless that is the reverse of
\* the direction buffered just before it, which then stays.  Commands write
\* nothing but the direction, and the next move takes the head one cell
\* along the buffered direction and leaves that direction as it is, so no
\* earlier command is applied by a later tick.
C14_LastWriteWins ==
    pc = "input"
    => \A cmds \in CommandSeqs :
         LET s == AfterCommands(cmds)
             buffered == <<s.dx, s.dy>>
             moved == move(s, WIDTH, play_height)
         IN  /\ s = [snake EXCEPT !.dx = buffered[1], !.dy = buffered[2]]
             /\ moved.segments[1]
                  = << (snake.segments[1][1] + buffered[1]) % WIDTH,
                       (snake.segments[1][2] + buffered[2]) % play_height >>
             /\ <<moved.dx, moved.dy>> = buffered
             /\ \A k \in Commands :
                  Buffered(Append(cmds, k))
                    = IF KeyStep(k) = << -buffered[1], -buffered[2] >>
                      THEN buffered
                      ELSE KeyStep(k)

\* C14 witness: since the latest move, which was along the x axis, a
\* command turned the snake to a vertical direction, a frame passed without
\* a move, and a later command was rejected as the reverse of the buffered
\* vertical direction, which the next move will use.
C14_Witness ==
    /\ pc = "update"
    /\ rejected
    /\ elapsed > 0
    /\ LastMoveAlongX
    /\ snake.dx = 0

\* The next move puts the head on a cell of the snake that is still a
\* segment after the move.
HitsSelf == HitsBody \/ (HitsTail /\ snake.pending_growth > 0)

\* C15: a tick whose new head cell is neither a rock nor the apple and that
\* makes no self-collision leaves the score, the apple and the whole rock
\* list as they were (the closing _ensure_rock_count call changes nothing);
\* the apple changes only on a tick that eats it or resets the round, a rock
\* only on a tick that strikes a rock or resets the round.
C15_PlainTickFrame ==
    [][ /\ (/\ "move" \in outcome'
            /\ NewHead \notin Range(rocks)
            /\ NewHead # apple
            /\ ~HitsSelf)
           => /\ UNCHANGED <<score, apple, rocks>>
              /\ outcome' \subseteq {"move", "grew"}
        /\ apple' # apple
           => /\ "move" \in outcome'
              /\ NewHead = apple \/ "reset" \in outcome'
        /\ rocks' # rocks
           => /\ "move" \in outcome'
              /\ NewHead \in Range(rocks) \/ "reset" \in outcome' ]_vars

\* C15 witness: a tick moved the snake and did nothing else, with the score
\* above 0 and the snake two segments long.
C15_Witness ==
    /\ Completed
    /\ outcome = {"move"}
    /\ score > 0
    /\ Len(snake.segments) = 2

\* C16: the tick is gated by the clock.  An _update moves the snake exactly
\* when the clock reads at least MOVE_INTERVAL_MS since last_move, so two
\* consecutive ticks are never closer than that; otherwise it changes
\* nothing and the time since last_move has grown and is still short of the
\* interval.  A tick moves the head by one cell however late it is, and
\* restarts the interval (elapsed = 0), so the time beyond the interval is
\* not caught up; a round reset ends with the interval restarted, so the
\* next tick comes no earlier than MOVE_INTERVAL_MS after it.
C16_TickGating ==
    [][ pc = "update"
        => /\ ("move" \in outcome') <=> (reading' # "early")
           /\ reading' = "early"
                => /\ elapsed' > elapsed
                   /\ elapsed' < MOVE_INTERVAL_MS
                   /\ outcome' = {}
                   /\ UNCHANGED <<snake, apple, rocks, score>>
           /\ "move" \in outcome'
                => /\ elapsed' = 0
                   /\ Len(snake'.segments) <= Len(snake.segments) + 1
                   /\ "reset" \notin outcome' => snake'.segments[1] = NewHead
                   /\ "reset" \in outcome' => snake'.segments = << StartCell >>
        ]_vars

\* C16 witness: a tick that came at least two intervals after the one
\* before it moved the snake once and restarted the interval.
C16_Witness ==
    /\ Completed
    /\ reading = "late"
    /\ "move" \in outcome
    /\ "reset" \notin outcome
    /\ elapsed = 0
    /\ Len(snake.segments) = 2

\* C17: between ticks the snake's pending growth is 0 or 1: the move of a
\* tick uses up what is pending before the tick's one grow call.
C17_PendingGrowthAtMostOne == snake.pending_growth \in {0, 1}

\* C17 witness: a tick whose move used up the growth of the apple eaten on
\* the tick before ate the next apple; one growth is pending again.
C17_Witness ==
    /\ Completed
    /\ {"grew", "apple"} \subseteq outcome
    /\ snake.pending_growth = 1

\* The snake's segments and pending growth against the score and the rocks
\* struck since the round began.
Accounted ==
    /\ Len(snake.segments) + snake.pending_growth = 1 + score - rock_hits
    /\ Len(snake.segments) <= score + 1
    /\ score >= 0

\* C18: before and after every tick the number of segments plus the pending
\* growth is 1 + score - (rocks struck since the round began), so the body
\* is never longer than score + 1 and the score is never negative; a tick
\* raises the score by 1 at most, and only by eating the apple, and lowers
\* it only by a round reset, to 0.
C18_LengthScoreAccounting ==
    [][ /\ Accounted
        /\ Accounted'
        /\ \/ score' = score
           \/ score' = score + 1 /\ "apple" \in outcome'
           \/ score' = 0 /\ "reset" \in outcome' ]_vars

\* C18 witness: in a round in which a rock was struck the snake ate an apple
\* with the score 2 or more after it.
C18_Witness ==
    /\ Completed
    /\ "apple" \in outcome
    /\ rock_hits >= 1
    /\ score >= 2

\* C19: the rocks are on pairwise distinct cells and none is on a cell of
\* the snake; the rock list never holds more than ROCK_COUNT rocks, and the
\* branch of _ensure_rock_count that cuts the list is never taken.
C19_RocksApartAndOffSnake ==
    /\ Distinct(rocks)
    /\ Range(rocks) \cap Range(snake.segments) = {}
    /\ Len(rocks) <= ROCK_COUNT
    /\ "truncated" \notin outcome

\* C19 witness: a tick struck a rock with the score above 0, the rock was
\* removed and another one placed, and the round went on.
C19_Witness ==
    /\ Completed
    /\ "rock" \in outcome
    /\ "reset" \notin outcome
    /\ score >= 1
    /\ Len(rocks) = ROCK_COUNT

\* The snake has a head, x and y are the head cell, and the snake's
\* rectangle collides with the rectangle of a lattice cell exactly when that
\* cell is the head cell.
HeadIsPosition ==
    /\ snake.segments # << >>
    /\ <<snake.x, snake.y>> = snake.segments[1]
    /\ \A cell \in grid_positions :
         colliderect(snake.x, snake.y, cell[1], cell[2])
           <=> (cell = snake.segments[1])

\* C20: between ticks the snake has at least one segment and its x and y
\* are the cell of segments[0], so the rectangle test of _update against
\* the apple is the test "head cell = apple cell": a tick that does not
\* reset the round eats the apple exactly when its move puts the head on
\* the apple's cell.
C20_HeadIsPosition ==
    [][ /\ HeadIsPosition
        /\ HeadIsPosition'
        /\ ("move" \in outcome' /\ "reset" \notin outcome')
           => (("apple" \in outcome') <=> (NewHead = apple)) ]_vars

\* C20 witness: a snake of two segments has just eaten the apple; x and y
\* are the head cell, where the apple was.
C20_Witness ==
    /\ Completed
    /\ "apple" \in outcome
    /\ Len(snake.segments) = 2
    /\ <<snake.x, snake.y>> = snake.segments[1]
    /\ apple # snake.segments[1]

====
